---- MODULE Spec2Model ----
(***************************************************************************)
(* A model of sqlite-logger (src/index.js): a store of leveled,            *)
(* context-tagged log records kept in one sqlite table, level-gated logger *)
(* handles, a filtered query, and a self-rescheduling purge of old rows.   *)
(*                                                                         *)
(* Time is counted in clock units; UnitsPerSec units make one second, so   *)
(* that the second-granularity of sqlite's current_timestamp and           *)
(* datetime() is visible.  A duration the source writes in milliseconds    *)
(* is written here in clock units.                                         *)
(***************************************************************************)
EXTENDS Integers, Sequences, FiniteSets, TLC

\* ------------------------------------------------------------- bounds
UnitsPerSec == 2
\* the clock is advanced at most this many units after construction
MaxTicks == 3
\* logger methods are called only while they have inserted fewer rows than this
MaxWrites == 2

\* the clock value at which the store is constructed
StartTime == 3 * UnitsPerSec
MaxTime == StartTime + MaxTicks

\* ---------------------------------------------------- JavaScript values
\* A JavaScript value: t is the type, n the number (or 0/1 for a boolean),
\* s the characters of a string, o the members of an object, a sequence of
\* <<key, number>> pairs.
JS(t, n, s, o) == [t |-> t, n |-> n, s |-> s, o |-> o]
undefined == JS("undefined", 0, <<>>, <<>>)
null == JS("null", 0, <<>>, <<>>)
false == JS("boolean", 0, <<>>, <<>>)
true == JS("boolean", 1, <<>>, <<>>)
Num(n) == JS("number", n, <<>>, <<>>)
Str(s) == JS("string", 0, s, <<>>)
Obj(o) == JS("object", 0, <<>>, o)
EmptyArray == JS("array", 0, <<>>, <<>>)

\* ToBoolean: what `x ? a : b`, `x || y`, `x && y` and `if (x)` test
Truthy(v) ==
    CASE v.t = "undefined" -> FALSE
      [] v.t = "null" -> FALSE
      [] v.t = "boolean" -> v.n = 1
      [] v.t = "number" -> v.n # 0
      [] v.t = "string" -> Len(v.s) > 0
      [] OTHER -> TRUE

\* a && b, a || b
And(a, b) == IF Truthy(a) THEN b ELSE a
Or(a, b) == IF Truthy(a) THEN a ELSE b

\* a !== undefined, as a JavaScript boolean
NotUndefined(v) == IF v.t = "undefined" THEN false ELSE true

\* ToNumber for the operands of a relational comparison; NaN is "no number"
IsNaN(v) == v.t \notin {"number", "boolean", "null"}
ToNumber(v) == IF v.t = "null" THEN 0 ELSE v.n

\* a <= b for a JavaScript value a and a number b: false when a is NaN
LessEq(a, b) == ~IsNaN(a) /\ ToNumber(a) <= b

\* a > b for a JavaScript value a and a number b: false when a is NaN
Greater(a, b) == ~IsNaN(a) /\ ToNumber(a) > b

\* String.prototype.toLowerCase over the letters used here
LowerChar(c) ==
    CASE c = "D" -> "d" [] c = "E" -> "e" [] c = "B" -> "b" [] c = "U" -> "u"
      [] c = "G" -> "g" [] c = "I" -> "i" [] c = "N" -> "n" [] c = "F" -> "f"
      [] c = "O" -> "o" [] c = "W" -> "w" [] c = "A" -> "a" [] c = "R" -> "r"
      [] OTHER -> c
toLowerCase(s) == [i \in DOMAIN s |-> LowerChar(s[i])]

\* ------------------------------------------------------------- JSON text
\* A text is a sequence of tokens; a number is written digit by digit.
DigitChar(d) ==
    CASE d = 0 -> "0" [] d = 1 -> "1" [] d = 2 -> "2" [] d = 3 -> "3"
      [] d = 4 -> "4" [] d = 5 -> "5" [] d = 6 -> "6" [] d = 7 -> "7"
      [] d = 8 -> "8" [] OTHER -> "9"
IsDigit(c) == c \in {"0", "1", "2", "3", "4", "5", "6", "7", "8", "9"}
DigitVal(c) == CHOOSE d \in 0..9 : DigitChar(d) = c

RECURSIVE Digits(_)
Digits(n) == IF n < 10 THEN <<DigitChar(n)>>
             ELSE Digits(n \div 10) \o <<DigitChar(n % 10)>>

RECURSIVE ParseNum(_)
ParseNum(txt) == IF Len(txt) = 1 THEN DigitVal(txt[1])
                 ELSE 10 * ParseNum(SubSeq(txt, 1, Len(txt) - 1)) + DigitVal(txt[Len(txt)])

RECURSIVE Members(_)
Members(o) ==
    IF o = <<>> THEN <<>>
    ELSE <<"\"", o[1][1], "\"", ":">> \o Digits(o[1][2])
         \o (IF Len(o) > 1 THEN <<",">> \o Members(Tail(o)) ELSE <<>>)

\* JSON.stringify of a value that has a JSON text
JSONstringify(v) ==
    CASE v.t = "null" -> <<"null">>
      [] v.t = "boolean" -> IF v.n = 1 THEN <<"true">> ELSE <<"false">>
      [] v.t = "number" -> Digits(v.n)
      [] v.t = "string" -> <<"\"">> \o v.s \o <<"\"">>
      [] v.t = "object" -> <<"{">> \o Members(v.o) \o <<"}">>
      [] OTHER -> <<"[", "]">>

\* the position of the first "," of txt, or Len(txt) + 1
RECURSIVE CommaAt(_, _)
CommaAt(txt, i) == IF i > Len(txt) \/ txt[i] = "," THEN i ELSE CommaAt(txt, i + 1)

RECURSIVE ParseMembers(_)
ParseMembers(txt) ==
    IF txt = <<>> THEN <<>>
    ELSE LET c == CommaAt(txt, 1)
         IN <<<<txt[2], ParseNum(SubSeq(txt, 5, c - 1))>>>>
            \o ParseMembers(SubSeq(txt, c + 1, Len(txt)))

\* the member list of an object text: "k":digits, separated by ","
RECURSIVE IsMembers(_)
IsMembers(txt) ==
    \/ txt = <<>>
    \/ LET c == CommaAt(txt, 1)
       IN /\ c >= 6
          /\ txt[1] = "\"" /\ txt[3] = "\"" /\ txt[4] = ":"
          /\ \A j \in 5..(c - 1) : IsDigit(txt[j])
          /\ c <= Len(txt) => (c < Len(txt) /\ IsMembers(SubSeq(txt, c + 1, Len(txt))))

\* the texts JSON.parse accepts; on any other text it throws a SyntaxError
IsJSON(txt) ==
    /\ txt # <<>>
    /\ \/ txt \in {<<"null">>, <<"true">>, <<"false">>, <<"[", "]">>}
       \/ \A j \in DOMAIN txt : IsDigit(txt[j])
       \/ Len(txt) >= 2 /\ txt[1] = "\"" /\ txt[Len(txt)] = "\""
       \/ /\ Len(txt) >= 2 /\ txt[1] = "{" /\ txt[Len(txt)] = "}"
          /\ IsMembers(SubSeq(txt, 2, Len(txt) - 1))

\* JSON.parse of a text JSON.stringify wrote
JSONparse(txt) ==
    LET h == txt[1]
    IN CASE h = "null" -> null
         [] h = "true" -> true
         [] h = "false" -> false
         [] h = "\"" -> Str(SubSeq(txt, 2, Len(txt) - 1))
         [] h = "{" -> Obj(ParseMembers(SubSeq(txt, 2, Len(txt) - 1)))
         [] h = "[" -> EmptyArray
         [] OTHER -> Num(ParseNum(txt))

\* ------------------------------------------------------- sqlite columns
\* The value a column holds: NULL, an integer or a text.
SqlNull == [k |-> "null", i |-> 0, txt |-> <<>>]
SqlInt(i) == [k |-> "integer", i |-> i, txt |-> <<>>]
SqlText(txt) == [k |-> "text", i |-> 0, txt |-> txt]

\* `data json` has NUMERIC affinity: a text that is a well-formed integer
\* literal is stored as an integer, any other text as it is.
NumericAffinity(c) ==
    IF c.k = "text" /\ c.txt # <<>> /\ \A j \in DOMAIN c.txt : IsDigit(c.txt[j])
    THEN SqlInt(ParseNum(c.txt))
    ELSE c

\* binding a JavaScript null or string (a text) as a statement parameter
Bind(v) == IF v.t = "null" THEN SqlNull ELSE SqlText(v.s)

\* the JavaScript value better-sqlite3 returns for a column
Fetch(c) ==
    CASE c.k = "null" -> null
      [] c.k = "integer" -> Num(c.i)
      [] OTHER -> Str(c.txt)

\* ToString of the argument of JSON.parse
ToText(v) == IF v.t = "number" THEN Digits(v.n) ELSE v.s

\* current_timestamp and datetime(): the whole second a clock value is in
Sec(t) == t \div UnitsPerSec

\* new Date(row.ctime), in clock units, with TZ = UTC
NewDate(sec) == sec * UnitsPerSec

\* ------------------------------------------------------------ the state
VARIABLES
    phase,          \* "new", "open" (sqliteLogger returned), "closed", "failed"
    path,           \* the closure's path, maxAge, maxAgeInterval, stderrStream
    maxAge,
    maxAgeInterval,
    stderrStream,
    msgs,           \* the rows of table msgs
    seq,            \* the last id autoincrement handed out
    now,            \* the wall clock
    timeout,        \* the closure's `timeout`: 0 for undefined, else a timer id
    timers,         \* the timers pending in the event loop: [id, at]
    timerSeq,       \* the last timer id setTimeout handed out
    handle,         \* the logger handle the caller holds
    stderr,         \* the number of lines written to process.stderr
    given,          \* the arguments sqliteLogger was called with
    last            \* the last operation, its arguments and its outcome

vars == <<phase, path, maxAge, maxAgeInterval, stderrStream, msgs, seq, now,
          timeout, timers, timerSeq, handle, stderr, given, last>>

namedLevels == [n \in {<<"d","e","b","u","g">>, <<"i","n","f","o">>,
                       <<"w","a","r","n">>, <<"e","r","r","o","r">>} |->
                   CASE n = <<"d","e","b","u","g">> -> 0
                     [] n = <<"i","n","f","o">> -> 1
                     [] n = <<"w","a","r","n">> -> 2
                     [] OTHER -> 3]

reverseNamedLevels == [l \in 0..3 |->
                          CASE l = 0 -> "DEBUG" [] l = 1 -> "INFO"
                            [] l = 2 -> "WARN" [] OTHER -> "ERROR"]

\* 30 * 24 * 60 * 60 * 1000 ms and 24 * 60 * 60 * 1000 ms
DefaultMaxAge == 30 * 24 * 60 * 60 * UnitsPerSec
DefaultMaxAgeInterval == 24 * 60 * 60 * UnitsPerSec

Memory == Str(<<":memory:">>)
File == Str(<<"log.db">>)
processStderr == JS("stream", 0, <<>>, <<>>)

\* a row of msgs; ctime is the second current_timestamp gave
Row(id, ctx, level, msg, data, ctime) ==
    [id |-> id, ctx |-> ctx, level |-> level, msg |-> msg, data |-> data,
     ctime |-> ctime]

\* What an operation leaves in `last`: its name, where it threw ("" when it
\* returned), the clock, the failure its environment had in store, its
\* arguments, its result, and the rows and stderr lines before it.
NoRows == <<>>
Op(op, threw, fail, s, ctx, msg, data, f, res, pre, preErr) ==
    [op |-> op, threw |-> threw, at |-> now, fail |-> fail, s |-> s,
     ctx |-> ctx, msg |-> msg, data |-> data, f |-> f, res |-> res,
     pre |-> pre, preErr |-> preErr]
NoArgs(op, threw, fail, pre) ==
    Op(op, threw, fail, 0, "", "", undefined, <<>>, NoRows, pre, stderr)

Given(oPath, oMaxAge, oMaxAgeInterval, oTee, rows) ==
    [path |-> oPath, maxAge |-> oMaxAge, maxAgeInterval |-> oMaxAgeInterval,
     teeStderr |-> oTee, rows |-> rows]

NoHandle == [ctx |-> "", maxLevel |-> undefined, arg |-> undefined,
             debug |-> FALSE, info |-> FALSE, warn |-> FALSE, error |-> FALSE,
             made |-> FALSE]

\* ------------------------------------------------- construction options
PathOpts == {undefined, Memory, File}
MaxAgeOpts == {undefined, Num(0), Num(1), Num(-1)}
MaxAgeIntervalOpts == {undefined, Num(1)}
TeeOpts == {undefined, false, true}
\* what a database file may hold when it is opened
OldRow == Row(1, "a", 1, "x", SqlNull, 0)
OldRowB == Row(2, "b", 1, "x", SqlNull, 1)
DiskOpts == {{}, {OldRow}, {OldRow, OldRowB}}
\* where a database operation of purge may fail
PurgeFails == {"none", "delete", "vacuum"}

Init ==
    /\ phase = "new"
    /\ path = undefined
    /\ maxAge = undefined
    /\ maxAgeInterval = undefined
    /\ stderrStream = undefined
    /\ msgs = {}
    /\ seq = 0
    /\ now = StartTime
    /\ timeout = 0
    /\ timers = {}
    /\ timerSeq = 0
    /\ handle = NoHandle
    /\ stderr = 0
    /\ given = Given(undefined, undefined, undefined, undefined, {})
    /\ last = NoArgs("none", "", "none", {})

\* the delete with <= written for <
PurgeDeleteInclusive(rows, t, age) == {r \in rows : ~(r.ctime <= Sec(t - age))}

\* delete from msgs where ctime < datetime('now', '-<age / 1000> seconds')
PurgeDelete(rows, t, age) == {r \in rows : ~(r.ctime < Sec(t - age))}

\* purge(): delete, vacuum, setTimeout(purge, maxAgeInterval); a failing
\* delete or vacuum throws out of purge
purge(rows, pending, age, interval, fail) ==
    /\ msgs' = IF fail = "delete" THEN rows ELSE PurgeDelete(rows, now, age)
    /\ IF fail = "none"
       THEN /\ timerSeq' = timerSeq + 1
            /\ timeout' = timerSeq + 1
            /\ timers' = pending \cup {[id |-> timerSeq + 1, at |-> now + interval]}
       ELSE /\ timers' = pending
            /\ UNCHANGED <<timerSeq, timeout>>

\* sqliteLogger({ path, maxAge, maxAgeInterval, teeStderr })
sqliteLogger(oPath, oMaxAge, oMaxAgeInterval, oTee, disk, fail) ==
    /\ phase = "new"
    /\ LET p == Or(oPath, Memory)
           age == Or(And(NotUndefined(oMaxAge), oMaxAge), Num(DefaultMaxAge))
           interval == Or(And(NotUndefined(oMaxAgeInterval), oMaxAgeInterval),
                          Num(DefaultMaxAgeInterval))
           rows == IF p = Memory THEN {} ELSE disk
           runs == Greater(age, 0)
           f == IF runs THEN fail ELSE "none"
       IN /\ path' = p
          /\ maxAge' = age
          /\ maxAgeInterval' = interval
          /\ stderrStream' = And(oTee, processStderr)
          /\ seq' = Cardinality(rows)
          /\ given' = Given(oPath, oMaxAge, oMaxAgeInterval, oTee, rows)
          /\ IF runs
             THEN purge(rows, timers, age.n, interval.n, f)
             ELSE msgs' = rows /\ UNCHANGED <<timerSeq, timeout, timers>>
          /\ phase' = IF f = "none" THEN "open" ELSE "failed"
          /\ last' = NoArgs("sqliteLogger", IF f = "none" THEN "" ELSE f, f, rows)
    /\ UNCHANGED <<now, handle, stderr>>

\* the firing as a repeating timer: the fired timer stays pending
PurgeTimerRepeats(tm, fail) ==
    /\ tm \in timers
    /\ now >= tm.at
    /\ LET f == IF phase = "open" THEN fail ELSE "delete"
       IN /\ purge(msgs, timers, maxAge.n, maxAgeInterval.n, f)
          /\ last' = NoArgs("purge", IF f = "none" THEN "" ELSE f, f, msgs)
    /\ UNCHANGED <<phase, path, maxAge, maxAgeInterval, stderrStream, seq, now,
                   handle, stderr, given>>

\* the timer set by purge fires: purge runs again
PurgeTimer(tm, fail) ==
    /\ tm \in timers
    /\ now >= tm.at
    /\ LET f == IF phase = "open" THEN fail ELSE "delete"
       IN /\ purge(msgs, timers \ {tm}, maxAge.n, maxAgeInterval.n, f)
          /\ last' = NoArgs("purge", IF f = "none" THEN "" ELSE f, f, msgs)
    /\ UNCHANGED <<phase, path, maxAge, maxAgeInterval, stderrStream, seq, now,
                   handle, stderr, given>>

\* close without its clearTimeout
closeKeepsTimer ==
    /\ phase \in {"open", "closed"}
    /\ phase' = "closed"
    /\ last' = NoArgs("close", "", "none", msgs)
    /\ UNCHANGED <<path, maxAge, maxAgeInterval, stderrStream, msgs, seq, now,
                   timeout, timers, timerSeq, handle, stderr, given>>

\* close(): if (timeout) clearTimeout(timeout); db.close()
close ==
    /\ phase \in {"open", "closed"}
    /\ timers' = IF timeout # 0 THEN {tm \in timers : tm.id # timeout} ELSE timers
    /\ phase' = "closed"
    /\ last' = NoArgs("close", "", "none", msgs)
    /\ UNCHANGED <<path, maxAge, maxAgeInterval, stderrStream, msgs, seq, now,
                   timeout, timerSeq, handle, stderr, given>>

\* time passes
Tick ==
    /\ now < MaxTime
    /\ now' = now + 1
    /\ UNCHANGED <<phase, path, maxAge, maxAgeInterval, stderrStream, msgs, seq,
                   timeout, timers, timerSeq, handle, stderr, given, last>>

\* -------------------------------------------------------- logger handles
Ctxs == {"a", "b"}
Msgs == {"x", "y"}
LevelArgs == {undefined, Num(0), Num(1), Num(2), Num(3),
              Str(<<"d","e","b","u","g">>), Str(<<"I","N","F","O">>),
              Str(<<"W","a","r","n">>), Str(<<"e","r","r","o","r">>),
              Str(<<"t","r","a","c","e">>)}
\* an object that refers to itself: JSON.stringify throws on it
Cyclic == JS("cyclic", 0, <<>>, <<>>)
DataVals == {undefined, null, false, true, Num(0), Num(7), Str(<<>>),
             Str(<<"h", "i">>), Obj(<<>>), Obj(<<<<"foo", 42>>>>),
             Obj(<<<<"a", 1>>, <<"b", 20>>>>), EmptyArray, Cyclic}
\* where a logger call may fail: the insert, or the write to stderr
LogFails == {"none", "insert", "stderr"}

\* the gate with < written for <=
GateStrict(maxLevel, s) == ~IsNaN(maxLevel) /\ ToNumber(maxLevel) < s

\* maxLevel <= s, the test that binds a method to log
Gate(maxLevel, s) == LessEq(maxLevel, s)

\* the resolution with debug as the level of an omitted maxLevel
ResolveLevelDefaultDebug(arg) ==
    IF arg.t = "string"
    THEN LET k == toLowerCase(arg.s)
         IN IF k \in DOMAIN namedLevels THEN Num(namedLevels[k]) ELSE undefined
    ELSE And(IF arg.t = "undefined" THEN true ELSE false, Num(namedLevels[<<"d","e","b","u","g">>]))

\* the maxLevel getLogger compares with, from its argument
ResolveLevel(arg) ==
    IF arg.t = "string"
    THEN LET k == toLowerCase(arg.s)
         IN IF k \in DOMAIN namedLevels THEN Num(namedLevels[k]) ELSE undefined
    ELSE And(IF arg.t = "undefined" THEN true ELSE false, Num(namedLevels[<<"i","n","f","o">>]))

\* getLogger(ctx, maxLevel)
getLogger(ctx, arg) ==
    /\ phase \in {"open", "closed"}
    /\ LET maxLevel == ResolveLevel(arg)
       IN handle' = [ctx |-> ctx, maxLevel |-> maxLevel, arg |-> arg,
                     debug |-> Gate(maxLevel, 0), info |-> Gate(maxLevel, 1),
                     warn |-> Gate(maxLevel, 2), error |-> Gate(maxLevel, 3),
                     made |-> TRUE]
    /\ last' = Op("getLogger", "", "none", 0, ctx, "", arg, <<>>, NoRows, msgs,
                   stderr)
    /\ UNCHANGED <<phase, path, maxAge, maxAgeInterval, stderrStream, msgs, seq,
                   now, timeout, timers, timerSeq, stderr, given>>

\* the serialization with a missing data written as the text undefined
SerializeUndefined(data) ==
    IF Truthy(data) THEN Str(JSONstringify(data))
    ELSE IF data.t = "undefined" THEN Str(<<"undefined">>) ELSE null

\* data ? JSON.stringify(data) : null
Serialize(data) == IF Truthy(data) THEN Str(JSONstringify(data)) ELSE null

\* the row the insert of log adds
Inserted(ctx, level, msg, data) ==
    Row(seq + 1, ctx, level, msg, NumericAffinity(Bind(Serialize(data))), Sec(now))

\* log with the write to stderr moved before the insert
logTeeFirst(ctx, level, msg, data, fail) ==
    LET early == IF Truthy(data) /\ data.t = "cyclic" THEN "stringify"
                 ELSE IF phase # "open" THEN "prepare"
                 ELSE IF fail = "insert" THEN "insert"
                 ELSE ""
        tee == IF stderrStream.t \in {"undefined", "null"} THEN "skip"
               ELSE IF stderrStream.t # "stream" THEN "notfunction"
               ELSE IF fail = "stderr" THEN "stderr"
               ELSE "write"
    IN IF early # ""
       THEN /\ last' = Op("log", early, fail, level, ctx, msg, data, <<>>, NoRows,
                           msgs, stderr)
            /\ stderr' = IF early # "stringify" /\ tee = "write"
                         THEN stderr + 1 ELSE stderr
            /\ UNCHANGED <<msgs, seq>>
       ELSE /\ msgs' = msgs \cup {Inserted(ctx, level, msg, data)}
            /\ seq' = seq + 1
            /\ stderr' = IF tee = "write" THEN stderr + 1 ELSE stderr
            /\ last' = Op("log", IF tee \in {"notfunction", "stderr"} THEN tee ELSE "",
                          fail, level, ctx, msg, data, <<>>, NoRows, msgs, stderr)

\* log(ctx, level, msg, data)
log(ctx, level, msg, data, fail) ==
    LET early == IF Truthy(data) /\ data.t = "cyclic" THEN "stringify"
                 ELSE IF phase # "open" THEN "prepare"
                 ELSE IF fail = "insert" THEN "insert"
                 ELSE ""
        tee == IF stderrStream.t \in {"undefined", "null"} THEN "skip"
               ELSE IF stderrStream.t # "stream" THEN "notfunction"
               ELSE IF fail = "stderr" THEN "stderr"
               ELSE "write"
    IN IF early # ""
       THEN /\ last' = Op("log", early, fail, level, ctx, msg, data, <<>>, NoRows,
                           msgs, stderr)
            /\ UNCHANGED <<msgs, seq, stderr>>
       ELSE /\ msgs' = msgs \cup {Inserted(ctx, level, msg, data)}
            /\ seq' = seq + 1
            /\ stderr' = IF tee = "write" THEN stderr + 1 ELSE stderr
            /\ last' = Op("log", IF tee \in {"notfunction", "stderr"} THEN tee ELSE "",
                          fail, level, ctx, msg, data, <<>>, NoRows, msgs, stderr)

\* nop
nop(ctx, level, msg, data) ==
    /\ last' = Op("log", "", "none", level, ctx, msg, data, <<>>, NoRows, msgs,
                   stderr)
    /\ UNCHANGED <<msgs, seq, stderr>>

\* the method of the handle for severity s
Bound(h, s) == CASE s = 0 -> h.debug [] s = 1 -> h.info [] s = 2 -> h.warn
                 [] OTHER -> h.error

\* handle.debug / info / warn / error (msg, data)
LoggerMethod(s, msg, data, fail) ==
    /\ handle.made
    /\ seq - Cardinality(given.rows) < MaxWrites
    /\ IF Bound(handle, s)
       THEN log(handle.ctx, s, msg, data, fail)
       ELSE nop(handle.ctx, s, msg, data)
    /\ UNCHANGED <<phase, path, maxAge, maxAgeInterval, stderrStream, now,
                   timeout, timers, timerSeq, handle, given>>

\* ------------------------------------------------------------- queries
\* a 'YYYY-MM-DD HH:MM:SS' text for second sec, as a JavaScript string
Time(sec) == JS("time", sec, <<>>, <<>>)
\* an option holding an array, or left out
Absent == [def |-> FALSE, list |-> <<>>]
List(l) == [def |-> TRUE, list |-> l]
Filter(levels, ctxs, after, before, limit) ==
    [levels |-> levels, ctxs |-> ctxs, after |-> after, before |-> before,
     limit |-> limit]

\* parseInt(x, 10) of a number or of a string of characters; NaN is -1
RECURSIVE LeadingDigits(_)
LeadingDigits(s) == IF s = <<>> \/ ~IsDigit(s[1]) THEN <<>>
                    ELSE <<s[1]>> \o LeadingDigits(Tail(s))
parseInt(x) == IF x.t = "number" THEN x.n
               ELSE IF LeadingDigits(x.s) = <<>> THEN -1
               ELSE ParseNum(LeadingDigits(x.s))

\* levels.map((x) => parseInt(x, 10)).filter((x) => !isNaN(x))
ParsedLevels(l) == SelectSeq([j \in DOMAIN l |-> parseInt(l[j])], LAMBDA n : n # -1)

Range(q) == {q[j] : j \in DOMAIN q}

\* the where clause without its ctx clause
WhereWithoutCtxs(f, r) ==
    /\ (f.levels.def /\ Len(ParsedLevels(f.levels.list)) > 0)
          => r.level \in Range(ParsedLevels(f.levels.list))
    /\ Truthy(f.after) => r.ctime > f.after.n
    /\ Truthy(f.before) => r.ctime < f.before.n

\* the where clause with a levels clause even when no level is left
WhereEmptyLevels(f, r) ==
    /\ f.levels.def => r.level \in Range(ParsedLevels(f.levels.list))
    /\ f.ctxs.def => r.ctx \in Range(f.ctxs.list)
    /\ Truthy(f.after) => r.ctime > f.after.n
    /\ Truthy(f.before) => r.ctime < f.before.n

\* the where clause with bounds that admit the bound itself
WhereInclusive(f, r) ==
    /\ (f.levels.def /\ Len(ParsedLevels(f.levels.list)) > 0)
          => r.level \in Range(ParsedLevels(f.levels.list))
    /\ f.ctxs.def => r.ctx \in Range(f.ctxs.list)
    /\ Truthy(f.after) => r.ctime >= f.after.n
    /\ Truthy(f.before) => r.ctime <= f.before.n

\* the where clause getMessages builds, applied to a row
Where(f, r) ==
    /\ (f.levels.def /\ Len(ParsedLevels(f.levels.list)) > 0)
          => r.level \in Range(ParsedLevels(f.levels.list))
    /\ f.ctxs.def => r.ctx \in Range(f.ctxs.list)
    /\ Truthy(f.after) => r.ctime > f.after.n
    /\ Truthy(f.before) => r.ctime < f.before.n

\* order by ctime, ascending
RECURSIVE OrderByCtimeAsc(_)
OrderByCtimeAsc(rows) ==
    IF rows = {} THEN {<<>>}
    ELSE UNION {{<<r>> \o q : q \in OrderByCtimeAsc(rows \ {r})} :
                   r \in {x \in rows : \A o \in rows : o.ctime >= x.ctime}}

\* order by ctime desc: every order of rows in which ctime never increases
\* (sqlite leaves the order of rows of equal ctime open)
RECURSIVE OrderByCtimeDesc(_)
OrderByCtimeDesc(rows) ==
    IF rows = {} THEN {<<>>}
    ELSE UNION {{<<r>> \o q : q \in OrderByCtimeDesc(rows \ {r})} :
                   r \in {x \in rows : \A o \in rows : o.ctime <= x.ctime}}

\* limit ?
Limit(f, q) == IF Truthy(f.limit) /\ f.limit.n >= 0 /\ f.limit.n < Len(q)
               THEN SubSeq(q, 1, f.limit.n) ELSE q

\* the object a row is mapped to
Message(r) ==
    [ctx |-> r.ctx, level |-> r.level, msg |-> r.msg,
     ctime |-> NewDate(r.ctime),
     levelName |-> IF r.level \in DOMAIN reverseNamedLevels
                   THEN reverseNamedLevels[r.level] ELSE "undefined",
     data |-> IF Truthy(Fetch(r.data)) THEN JSONparse(ToText(Fetch(r.data)))
              ELSE null]

\* row.data ? JSON.parse(row.data) : null throws on a text that is no JSON
Undecodable(r) == Truthy(Fetch(r.data)) /\ ~IsJSON(ToText(Fetch(r.data)))

\* getMessages({ levels, ctxs, after, before, limit })
getMessages(f) ==
    /\ phase \in {"open", "closed"}
    /\ IF phase = "closed"
       THEN last' = Op("getMessages", "prepare", "none", 0, "", "", undefined, f,
                       NoRows, msgs, stderr)
       ELSE \E q \in OrderByCtimeDesc({r \in msgs : Where(f, r)}) :
               IF \E j \in DOMAIN Limit(f, q) : Undecodable(Limit(f, q)[j])
               THEN last' = Op("getMessages", "parse", "none", 0, "", "", undefined,
                               f, NoRows, msgs, stderr)
               ELSE last' = Op("getMessages", "", "none", 0, "", "", undefined, f,
                               [j \in DOMAIN Limit(f, q) |-> Message(Limit(f, q)[j])],
                               msgs, stderr)
    /\ UNCHANGED <<phase, path, maxAge, maxAgeInterval, stderrStream, msgs, seq,
                   now, timeout, timers, timerSeq, handle, stderr, given>>

NoFilter == Filter(Absent, Absent, undefined, undefined, undefined)
\* limits 0, 1 and 2, alone and with a ctxs filter
LimitFilters ==
    {Filter(Absent, Absent, undefined, undefined, Num(n)) : n \in 0..2}
    \cup {Filter(Absent, List(<<"a">>), undefined, undefined, Num(1))}
\* levels arrays: empty, integers, digit strings, entries that are no number
LevelFilters ==
    {Filter(List(l), Absent, undefined, undefined, undefined) :
        l \in {<<>>, <<Num(1)>>, <<Num(1), Num(3)>>, <<Str(<<"x">>)>>,
               <<Str(<<"3">>), Str(<<"x">>)>>, <<null, undefined>>}}
\* after and before, alone, together and with levels and ctxs
BoundFilters ==
    {Filter(Absent, Absent, Time(1), undefined, undefined),
     Filter(Absent, Absent, undefined, Time(3), undefined),
     Filter(Absent, Absent, Time(0), Time(3), undefined),
     Filter(List(<<Num(1)>>), List(<<"a">>), Time(0), Time(4), undefined),
     Filter(List(<<Num(3)>>), Absent, Time(1), undefined, undefined),
     Filter(Absent, List(<<"b">>), undefined, Time(3), undefined)}
Filters == {NoFilter} \cup LimitFilters \cup LevelFilters \cup BoundFilters

\* no filter, one context, no context, two contexts
CtxFilters ==
    {NoFilter}
    \cup {Filter(Absent, List(l), undefined, undefined, undefined) :
             l \in {<<"a">>, <<"b">>, <<>>, <<"a", "b">>}}

\* ------------------------------------------------------ specifications
\* The operations, their arguments drawn from the sets of a workload w.
Construct(w) ==
    \E p \in w.paths, a \in w.maxAges, i \in w.maxAgeIntervals, e \in w.tees,
       d \in w.disks, f \in w.purgeFails : sqliteLogger(p, a, i, e, d, f)

Timer(w) == \E tm \in timers, f \in w.purgeFails : PurgeTimer(tm, f)

MakeLogger(w) == \E c \in w.ctxs, a \in w.levelArgs : getLogger(c, a)

Call(w) ==
    \E s \in w.severities, m \in w.msgs, d \in w.datas, f \in w.logFails :
       LoggerMethod(s, m, d, f)

Query(w) == \E f \in w.filters : getMessages(f)

Workload(ps, as, is, ts, ds, pfs, cs, ls, ss, ms, vs, lfs, fs) ==
    [paths |-> ps, maxAges |-> as, maxAgeIntervals |-> is, tees |-> ts,
     disks |-> ds, purgeFails |-> pfs, ctxs |-> cs, levelArgs |-> ls,
     severities |-> ss, msgs |-> ms, datas |-> vs, logFails |-> lfs,
     filters |-> fs]

\* Every operation, each with a few of its arguments; the specifications
\* below widen one operation's arguments at a time.
All == Workload({File}, {Num(1)}, {Num(1)}, {undefined, true}, {{}, {OldRow}},
                PurgeFails, {"a"}, {Str(<<"W","a","r","n">>)}, {1, 2}, {"x"},
                {undefined, Obj(<<<<"foo", 42>>>>)}, LogFails, {NoFilter})

Next ==
    \/ Construct(All)
    \/ Timer(All)
    \/ MakeLogger(All)
    \/ Call(All)
    \/ Query(All)
    \/ close
    \/ Tick

Spec == Init /\ [][Next]_vars

\* The level gate: every maxLevel argument and severity, on a store in
\* memory with default retention, at one instant.
GateLoad == Workload({undefined}, {undefined}, {undefined}, {undefined, true},
                     {{}}, {"none"}, Ctxs, LevelArgs, 0..3, {"x"}, {undefined},
                     {"none"}, {NoFilter})
NextGate ==
    \/ Construct(GateLoad)
    \/ MakeLogger(GateLoad)
    \/ Call(GateLoad)
    \/ close

SpecGate == Init /\ [][NextGate]_vars

\* Retention: every maxAge and maxAgeInterval, a database file that may
\* hold an old row, failing deletes and vacuums, and the clock.
RetentionLoad == Workload({undefined, File}, MaxAgeOpts, MaxAgeIntervalOpts,
                          {undefined}, {{}, {OldRow}}, PurgeFails, {"a"}, {undefined},
                          {1}, {"x"}, {undefined}, {"none"}, {NoFilter})
NextRetention ==
    \/ Construct(RetentionLoad)
    \/ Timer(RetentionLoad)
    \/ MakeLogger(RetentionLoad)
    \/ Call(RetentionLoad)
    \/ close
    \/ Tick

SpecRetention == Init /\ [][NextRetention]_vars

\* The write path: every data value, every teeStderr, failing inserts and
\* failing writes to stderr, read back by a query without filter.
DataLoad == Workload({undefined}, {undefined}, {undefined}, TeeOpts, {{}},
                     {"none"}, {"a"}, {Str(<<"d","e","b","u","g">>)}, {1},
                     {"x"}, DataVals, LogFails, {NoFilter})
NextData ==
    \/ Construct(DataLoad)
    \/ MakeLogger(DataLoad)
    \/ Call(DataLoad)
    \/ Query(DataLoad)
    \/ close

SpecData == Init /\ [][NextData]_vars

\* Queries: every filter, over rows of two contexts and two levels written
\* at different seconds, with a purge that deletes.
QueryLoad == Workload({File}, {undefined, Num(1)}, {Num(1)},
                      {undefined}, {{}, {OldRow, OldRowB}}, {"none"}, Ctxs,
                      {Str(<<"d","e","b","u","g">>)}, {1}, {"x"},
                      {undefined}, {"none"}, CtxFilters)
NextQuery ==
    \/ Construct(QueryLoad)
    \/ Timer(QueryLoad)
    \/ MakeLogger(QueryLoad)
    \/ Call(QueryLoad)
    \/ Query(QueryLoad)
    \/ Tick

SpecQuery == Init /\ [][NextQuery]_vars

\* Limited queries, over two rows read from the database file and rows
\* written at different seconds.
LimitLoad == Workload({File}, {undefined}, {undefined}, {undefined},
                      {{OldRow, OldRowB}}, {"none"}, {"a"},
                      {Str(<<"d","e","b","u","g">>)}, {1}, {"x"},
                      {undefined}, {"none"}, {NoFilter} \cup LimitFilters)
NextLimit ==
    \/ Construct(LimitLoad)
    \/ MakeLogger(LimitLoad)
    \/ Call(LimitLoad)
    \/ Query(LimitLoad)
    \/ Tick

SpecLimit == Init /\ [][NextLimit]_vars

\* Queries by level, over rows of two levels.
LevelLoad == Workload({File}, {undefined}, {undefined}, {undefined},
                      {{OldRow}}, {"none"}, {"a"},
                      {Str(<<"d","e","b","u","g">>)}, {1, 3}, {"x"},
                      {undefined}, {"none"}, {NoFilter} \cup LevelFilters)
NextLevel ==
    \/ Construct(LevelLoad)
    \/ MakeLogger(LevelLoad)
    \/ Call(LevelLoad)
    \/ Query(LevelLoad)
    \/ Tick

SpecLevel == Init /\ [][NextLevel]_vars

\* Queries by time, level and context together, over rows of two contexts
\* and two levels stamped on, before and after the bounds.
BoundLoad == Workload({File}, {undefined}, {undefined}, {undefined},
                      {{OldRow, OldRowB}}, {"none"}, {"a"},
                      {Str(<<"d","e","b","u","g">>)}, {1, 3}, {"x"},
                      {undefined}, {"none"}, BoundFilters)
NextBound ==
    \/ Construct(BoundLoad)
    \/ MakeLogger(BoundLoad)
    \/ Call(BoundLoad)
    \/ Query(BoundLoad)
    \/ Tick

SpecBound == Init /\ [][NextBound]_vars

\* ---------------------------------------------------------------- claims
\* the rows the last operation added, and those it removed
Added == msgs \ last.pre
Removed == last.pre \ msgs
\* the last operation added exactly one row, with this ctx, level and msg
AddedOne(ctx, s, msg) ==
    /\ Removed = {}
    /\ Cardinality(Added) = 1
    /\ \A r \in Added : r.ctx = ctx /\ r.level = s /\ r.msg = msg
\* a logger method was the last operation
Logged == last.op = "log"

\* the level a severity name stands for, in the letter cases of LevelArgs
NameLevel(s) ==
    CASE s = <<"d","e","b","u","g">> -> 0
      [] s = <<"I","N","F","O">> -> 1
      [] s = <<"W","a","r","n">> -> 2
      [] s = <<"e","r","r","o","r">> -> 3
      [] OTHER -> -1

\* C1: on a handle made with a severity name m, in any letter case, the
\* method of severity s adds exactly one row with the handle's ctx, level s
\* and the given msg when s >= level(m); when s < level(m) it returns
\* without adding a row, writing to stderr or changing the store.
C1_LevelGate ==
    (Logged /\ handle.arg.t = "string" /\ NameLevel(handle.arg.s) >= 0) =>
        /\ last.s < NameLevel(handle.arg.s) =>
              last.threw = "" /\ msgs = last.pre /\ stderr = last.preErr
        /\ (last.s >= NameLevel(handle.arg.s) /\ phase = "open") =>
              AddedOne(handle.ctx, last.s, last.msg)

\* C1 witness: a handle made with 'Warn' has logged a warning and has just
\* dropped an info call, with stderr mirroring on.
C1_Witness ==
    /\ Logged
    /\ handle.arg = Str(<<"W","a","r","n">>)
    /\ last.s = 1
    /\ stderrStream = processStderr
    /\ \E r \in msgs : r.level = 2 /\ r.ctx = handle.ctx

\* C2: on a handle made with an integer maxLevel m in 0..3, the method of
\* severity s is a no-op when s < m and adds a row when s >= m.
C2_IntegerGate ==
    (Logged /\ handle.arg.t = "number") =>
        /\ last.s < handle.arg.n => last.threw = "" /\ msgs = last.pre
        /\ (last.s >= handle.arg.n /\ phase = "open") =>
              AddedOne(handle.ctx, last.s, last.msg)

\* C3: the row a logger method adds is returned by getMessages with data
\* equal to the value supplied, whatever that value is, and with null when
\* no data was supplied.
C3_DataRoundTrip ==
    Logged => \A r \in Added :
                 Message(r).data = IF last.data.t = "undefined" THEN null
                                   ELSE last.data

\* C4: a store created with maxAge = 0 never runs a purge, never sets a
\* timer and never deletes a row.
C4_ZeroDisablesRetention ==
    (phase # "new" /\ given.maxAge = Num(0)) =>
        /\ timers = {}
        /\ timeout = 0
        /\ timerSeq = 0
        /\ last.op # "purge"
        /\ given.rows \subseteq msgs

\* a purge has just run its delete, at time last.at
Purged ==
    /\ last.op \in {"purge", "sqliteLogger"}
    /\ last.threw # "delete"
    /\ Greater(maxAge, 0)

\* C5 as stated: right after a purge at time T with maxAge A no row has a
\* ctime older than T - A, and every row with ctime in [T - A, T] that was
\* there before is still there.
C5_PurgeWindow ==
    Purged =>
        /\ \A r \in msgs : ~(r.ctime * UnitsPerSec < last.at - maxAge.n)
        /\ \A r \in last.pre :
              (r.ctime * UnitsPerSec >= last.at - maxAge.n
               /\ r.ctime * UnitsPerSec <= last.at) => r \in msgs

\* C5 amended: right after a purge at time T with maxAge A no row has a
\* ctime a full second or more older than T - A, and every row with ctime in
\* [T - A, T] that was there before is still there.
C5_PurgeWindowToTheSecond ==
    Purged =>
        /\ \A r \in msgs : r.ctime * UnitsPerSec > last.at - maxAge.n - UnitsPerSec
        /\ \A r \in last.pre :
              (r.ctime * UnitsPerSec >= last.at - maxAge.n
               /\ r.ctime * UnitsPerSec <= last.at) => r \in msgs

\* C5 witness: a purge fired by the timer has deleted a row and kept one.
C5_Witness ==
    /\ Purged
    /\ last.op = "purge"
    /\ Removed # {}
    /\ msgs # {}

\* C6: once close has returned no timer is pending and no purge fires, and
\* close returns without throwing, with retention on or off.
C6_CloseCancels ==
    /\ phase = "closed" => timers = {} /\ last.op # "purge"
    /\ last.op = "close" => last.threw = "" /\ phase = "closed"

\* C6 witness: the store was closed with retention on, after the timer had
\* fired at least once and set its successor.
C6_Witness ==
    /\ phase = "closed"
    /\ timeout # 0
    /\ timerSeq >= 2

\* C7: a purge fired by the timer whose delete or vacuum fails still leaves
\* the next firing scheduled maxAgeInterval later.
C7_ScheduleSurvives ==
    (last.op = "purge" /\ last.threw # "" /\ phase = "open") =>
        \E tm \in timers : tm.at = last.at + maxAgeInterval.n

\* C8: with mirroring to stderr on, a logger method whose write to stderr
\* fails returns normally, its row committed.
C8_MirrorFailureSwallowed ==
    (Logged /\ stderrStream = processStderr /\ last.fail = "stderr"
       /\ Added # {}) =>
        /\ last.threw = ""
        /\ AddedOne(last.ctx, last.s, last.msg)

\* the returned object m is row r
Returns(m, r) ==
    /\ m.ctx = r.ctx
    /\ m.level = r.level
    /\ m.msg = r.msg
    /\ m.ctime = r.ctime * UnitsPerSec
\* the result of the last query holds exactly the rows of want, most recent
\* first
ReturnsExactly(want) ==
    /\ Len(last.res) = Cardinality(want)
    /\ \A r \in want : \E j \in DOMAIN last.res : Returns(last.res[j], r)
    /\ \A j \in DOMAIN last.res : \E r \in want : Returns(last.res[j], r)
    /\ \A j, k \in DOMAIN last.res :
          j < k => last.res[j].ctime >= last.res[k].ctime
\* the last operation was a query that returned
Queried == last.op = "getMessages" /\ last.threw = ""

C10_NoFilterQuery ==
    (Queried /\ last.f = NoFilter) => ReturnsExactly(msgs)

\* C10 witness: a query without filter returned three rows or more, the
\* first more recent than the last.
C10_Witness ==
    /\ Queried
    /\ last.f = NoFilter
    /\ Len(last.res) >= 3
    /\ last.res[1].ctime > last.res[Len(last.res)].ctime


\* C11: at most one purge firing is scheduled at any time, and the one that
\* is scheduled is the one the latest completed purge set (the handle kept
\* in timeout); a purge whose delete or vacuum did not finish schedules no
\* successor. A purge runs to completion as one step, so no two overlap.
C11_OnePurgeAtATime ==
    /\ Cardinality(timers) <= 1
    /\ \A tm \in timers : tm.id = timeout /\ tm.id = timerSeq
    /\ (last.op \in {"purge", "sqliteLogger"} /\ last.threw # "") => timers = {}

\* C11 witness: a timer firing has completed its delete and vacuum and has
\* scheduled exactly its successor.
C11_Witness ==
    /\ last.op = "purge"
    /\ last.threw = ""
    /\ timerSeq >= 2
    /\ Cardinality(timers) = 1
    /\ \E tm \in timers : tm.at = now + maxAgeInterval.n


\* the rows a ctxs option admits, as the claims read it
InCtxs(f) == {r \in msgs : f.ctxs.def => \E j \in DOMAIN f.ctxs.list : f.ctxs.list[j] = r.ctx}

\* C12: with a limit L >= 0, getMessages returns at most L records, and they
\* are the most recent of the records that match the other filters; with no
\* limit it returns all matching records.
C12_Limit ==
    (Queried /\ last.f \in LimitFilters \cup {NoFilter}) =>
        IF last.f.limit = undefined
        THEN ReturnsExactly(InCtxs(last.f))
        ELSE /\ Len(last.res) <= last.f.limit.n
             /\ \E S \in SUBSET InCtxs(last.f) :
                   /\ ReturnsExactly(S)
                   /\ \/ Cardinality(S) = last.f.limit.n
                      \/ S = InCtxs(last.f)
                   /\ \A r \in S, o \in InCtxs(last.f) \ S : r.ctime >= o.ctime


\* the integer an entry of a levels array stands for, if any
ParsesTo(e) ==
    CASE e = Num(1) -> {1}
      [] e = Num(3) -> {3}
      [] e = Str(<<"3">>) -> {3}
      [] OTHER -> {}
Kept(l) == UNION {ParsesTo(l[j]) : j \in DOMAIN l}

\* C13: getMessages({levels}) raises no error for entries that are no
\* integers; when at least one entry is an integer it returns exactly the
\* rows whose level is one of the integer entries, and when none is (an
\* empty list, or only entries that do not parse) it returns every row, as
\* without levels.
C13_Levels ==
    (last.op = "getMessages" /\ last.f \in LevelFilters /\ phase = "open") =>
        /\ last.threw = ""
        /\ IF Kept(last.f.levels.list) # {}
           THEN ReturnsExactly({r \in msgs : r.level \in Kept(last.f.levels.list)})
           ELSE ReturnsExactly(msgs)

\* C13 witness: a query for levels ['3', 'x'] over rows of levels 1 and 3
\* returned only the rows of level 3.
C13_Witness ==
    /\ Queried
    /\ last.f.levels = List(<<Str(<<"3">>), Str(<<"x">>)>>)
    /\ \E r \in msgs : r.level = 1
    /\ \E r \in msgs : r.level = 3
    /\ Len(last.res) >= 1
    /\ Len(last.res) < Cardinality(msgs)


\* C14: on a handle made with a maxLevel string that is no severity name,
\* getLogger raised no error and every method call of severity 0..3 on the
\* open store adds exactly one row.
C14_UnknownNamePermissive ==
    /\ (last.op = "getLogger" /\ last.data.t = "string"
            /\ NameLevel(last.data.s) = -1) => last.threw = ""
    /\ (Logged /\ handle.arg.t = "string" /\ NameLevel(handle.arg.s) = -1
            /\ phase = "open") => AddedOne(handle.ctx, last.s, last.msg)


\* C15: on a handle made without maxLevel the minimum is INFO: debug
\* returns without adding a row or writing to stderr, and info, warn and
\* error each add exactly one row of their level.
C15_DefaultInfo ==
    (Logged /\ handle.arg = undefined) =>
        /\ last.s = 0 => last.threw = "" /\ msgs = last.pre /\ stderr = last.preErr
        /\ (last.s \in 1..3 /\ phase = "open") =>
              AddedOne(handle.ctx, last.s, last.msg)

\* C15 witness: a handle made without maxLevel has stored an info call and
\* has just dropped a debug call.
C15_Witness ==
    /\ Logged
    /\ handle.arg = undefined
    /\ last.s = 0
    /\ phase = "open"
    /\ \E r \in msgs : r.level = 1 /\ r.ctx = handle.ctx
    /\ msgs = last.pre


\* C16: a logger method call whose JSON.stringify throws (data refers to
\* itself) or whose insert fails throws that error to its caller, and
\* leaves the rows and the stderr output exactly as they were before the
\* call: no row added or altered, no line mirrored, no second insert.
C16_FailedWrite ==
    (Logged /\ Bound(handle, last.s)) =>
        /\ last.data = Cyclic => last.threw = "stringify"
        /\ (last.data # Cyclic /\ last.fail = "insert" /\ phase = "open") =>
              last.threw = "insert"
        /\ last.threw \in {"stringify", "insert", "prepare"} =>
              msgs = last.pre /\ stderr = last.preErr

\* C16 witness: with stderr mirroring on and a row already stored, an
\* insert has failed.
C16_Witness ==
    /\ Logged
    /\ last.threw = "insert"
    /\ stderrStream = processStderr
    /\ msgs # {}
    /\ stderr > 0


\* a row satisfies every option of the filter, as the claim reads them
Matches(f, r) ==
    /\ f.levels.def => \E j \in DOMAIN f.levels.list : f.levels.list[j] = Num(r.level)
    /\ f.ctxs.def => \E j \in DOMAIN f.ctxs.list : f.ctxs.list[j] = r.ctx
    /\ f.after # undefined => r.ctime > f.after.n
    /\ f.before # undefined => r.ctime < f.before.n

C18_AppendOnly ==
    /\ Added # {} =>
          /\ Logged
          /\ Bound(handle, last.s)
          /\ last.threw = ""
          /\ Cardinality(Added) = 1
    /\ Removed # {} =>
          /\ last.op \in {"purge", "sqliteLogger"}
          /\ \A r \in Removed : r.ctime < Sec(last.at - maxAge.n)
    /\ \A r \in msgs, p \in last.pre : r.id = p.id => r = p
    /\ last.op \in {"getLogger", "getMessages", "close"} => msgs = last.pre


\* C19: with retention on and the store not closed, purge keeps firing:
\* it has fired at construction, before any write, and in every state one
\* more firing is pending, no later than maxAgeInterval after the last one
\* (a purge can fire infinitely often only if a next firing is always
\* pending, and rows that grow older than maxAge are deleted only by a
\* firing).
C19_RetentionLive ==
    (phase = "open" /\ Greater(maxAge, 0)) =>
        /\ timerSeq >= 1
        /\ \E tm \in timers : tm.at <= now + maxAgeInterval.n


\* the data column of a row holds a text that JSON.parse accepts
HoldsJSONText(r) == r.data.k = "text" /\ IsJSON(r.data.txt)
LevelNames == {"DEBUG", "INFO", "WARN", "ERROR"}

\* C20: every stored row has a data column that is NULL or a text that
\* decodes, and a level in 0..3; so getMessages never fails decoding and
\* every returned record has a levelName.
C20_StoredDecodes ==
    /\ \A r \in msgs : r.level \in 0..3 /\ (r.data = SqlNull \/ HoldsJSONText(r))
    /\ last.op = "getMessages" => last.threw # "parse"
    /\ Queried => \A j \in DOMAIN last.res : last.res[j].levelName \in LevelNames

\* C20, to the column's affinity: every stored row has a data column that
\* is NULL, a text that decodes, or - for a data whose JSON text is an
\* integer literal - that integer, which decodes to itself and is not 0;
\* its level is in 0..3; getMessages never fails decoding and every
\* returned record has a levelName.
C20_StoredDecodesOrNumber ==
    /\ \A r \in msgs :
          /\ r.level \in 0..3
          /\ \/ r.data = SqlNull
             \/ HoldsJSONText(r)
             \/ r.data.k = "integer" /\ r.data.i > 0
                   /\ JSONparse(ToText(Fetch(r.data))) = Num(r.data.i)
    /\ last.op = "getMessages" => last.threw # "parse"
    /\ Queried => \A j \in DOMAIN last.res : last.res[j].levelName \in LevelNames

\* C20 witness: a query has returned a row whose data is held as an integer
\* and a row whose data is held as a text.
C20_Witness ==
    /\ Queried
    /\ Len(last.res) = 2
    /\ \E r \in msgs : r.data.k = "integer"
    /\ \E r \in msgs : r.data.k = "text"

====
